---- MODULE Spec2Model ----
(***************************************************************************)
(* A model of client/backend.go: the IAM backend client.  Callers invoke   *)
(* the public methods of one shared iamBackendClient; every method builds  *)
(* one HTTP request, hands it to the HTTP library, and turns the library's *)
(* result (response, envelope, errors) into its return values.             *)
(***************************************************************************)
EXTENDS Integers, Sequences, FiniteSets, TLC

\* ------------------------------------------------------------------ bounds
\* Longest application code / secret drawn for the configuration.
MaxCredLen == 2
\* Number of callers sharing the client in the concurrent specification.
NumCallers == 2

\* --------------------------------------------------------------- constants
StatusOK == 200
bkIAMVersion == <<"1">>

\* Characters of a credential: a plain one, the double quote, the backslash.
DQ == "\""
BS == "\\"
Chars == {"a", DQ, BS}

RECURSIVE StringsUpTo(_)
StringsUpTo(n) ==
    IF n = 0 THEN {<<>>}
    ELSE LET shorter == StringsUpTo(n - 1)
         IN  shorter \cup {Append(s, ch) : s \in shorter, ch \in Chars}

\* ------------------------------------------------------------ JSON values
JNull == [t |-> "null"]
JNum(n) == [t |-> "num", n |-> n]
JStr(s) == [t |-> "str", s |-> s]
JObj(f) == [t |-> "obj", o |-> f]
JArr(a) == [t |-> "arr", a |-> a]
\* A body that is not JSON at all.
Garbage == [t |-> "garbage"]

\* ------------------------------------------------- IAMBackendBaseResponse
\* json.RawMessage that was never set (nil / zero length).
NoData == [t |-> "nil"]
ZeroBase == [Code |-> 0, Message |-> "", Data |-> NoData]

\* encoding/json on the envelope struct: a syntax error leaves the struct
\* untouched; a field of the wrong type is reported and skipped while the
\* other fields are still stored; a null field is skipped silently; data is
\* kept raw whatever it is.
CodeOf(o) ==
    IF "code" \in DOMAIN o /\ o["code"].t = "num" THEN o["code"].n ELSE 0
MessageOf(o) ==
    IF "message" \in DOMAIN o /\ o["message"].t = "str" THEN o["message"].s ELSE ""
DataOf(o) ==
    IF "data" \in DOMAIN o THEN o["data"] ELSE NoData
FieldMistyped(o) ==
    \/ "code" \in DOMAIN o /\ o["code"].t \notin {"num", "null"}
    \/ "message" \in DOMAIN o /\ o["message"].t \notin {"str", "null"}

UnmarshalEnvelope(body) ==
    CASE body.t = "garbage" -> [base |-> ZeroBase, err |-> TRUE]
      [] body.t = "null"    -> [base |-> ZeroBase, err |-> FALSE]
      [] body.t = "obj"     ->
            [base |-> [Code |-> CodeOf(body.o), Message |-> MessageOf(body.o),
                       Data |-> DataOf(body.o)],
             err |-> FieldMistyped(body.o)]
      [] OTHER              -> [base |-> ZeroBase, err |-> TRUE]

\* ----------------------------------------------------------------- errors
\* An error value: which fmt.Errorf / errors.New produced it, and the
\* arguments formatted into its text.
NoErr == [kind |-> "nil", status |-> 0, hasBody |-> FALSE, code |-> 0, message |-> ""]
MkErr(kind, status, hasBody, code, message) ==
    [kind |-> kind, status |-> status, hasBody |-> hasBody, code |-> code,
     message |-> message]

\* ----------------------------------------------------------------- client
RECURSIVE TrimRight(_, _)
TrimRight(s, ch) ==
    IF Len(s) > 0 /\ s[Len(s)] = ch THEN TrimRight(SubSeq(s, 1, Len(s) - 1), ch)
    ELSE s

NewIAMBackendClient(host, isAPIGateway, system, appCode, appSecret, envDebug, envForce) ==
    [Host |-> TrimRight(host, "/"),
     IsAPIGateway |-> isAPIGateway,
     System |-> system,
     appCode |-> appCode,
     appSecret |-> appSecret,
     isApiDebugEnabled |-> envDebug,
     isApiForceEnabled |-> envForce]

\* ------------------------------------------------- json.Marshal of strings
\* Mutant: the characters are copied into the literal unescaped.
EscapeCharNone(ch) == <<ch>>

EscapeChar(ch) ==
    IF ch = DQ THEN <<BS, DQ>>
    ELSE IF ch = BS THEN <<BS, BS>>
    ELSE <<ch>>

RECURSIVE Escape(_)
Escape(s) ==
    IF s = <<>> THEN <<>> ELSE EscapeChar(Head(s)) \o Escape(Tail(s))

Quote(s) == <<DQ>> \o Escape(s) \o <<DQ>>

\* json.Marshal(map[string]string{"bk_app_code": .., "bk_app_secret": ..}):
\* one object, keys in sorted order.
MarshalAuth(appCode, appSecret) ==
    <<"{">> \o Quote(<<"bk_app_code">>) \o <<":">> \o Quote(appCode) \o <<",">>
            \o Quote(<<"bk_app_secret">>) \o <<":">> \o Quote(appSecret) \o <<"}">>

\* ---------------------------------------------------- call: the request
callHeaders(c) ==
    IF c.IsAPIGateway
    THEN [h \in {"X-Bk-IAM-Version", "X-Bkapi-Authorization"} |->
            IF h = "X-Bk-IAM-Version" THEN bkIAMVersion
            ELSE MarshalAuth(c.appCode, c.appSecret)]
    ELSE [h \in {"X-Bk-IAM-Version", "X-BK-APP-CODE", "X-BK-APP-SECRET"} |->
            IF h = "X-Bk-IAM-Version" THEN bkIAMVersion
            ELSE IF h = "X-BK-APP-CODE" THEN c.appCode
            ELSE c.appSecret]

callQuery(c) ==
    (IF c.isApiDebugEnabled THEN {"debug=true"} ELSE {})
        \cup (IF c.isApiForceEnabled THEN {"force=true"} ELSE {})

callRequest(c, method, path, data) ==
    [method |-> method,
     url |-> c.Host \o path,
     query |-> callQuery(c),
     headers |-> callHeaders(c),
     data |-> data]

\* Ping builds its request by hand: no headers, no flags, no payload.
PingRequest(c) ==
    [method |-> "GET",
     url |-> c.Host \o <<"/ping">>,
     query |-> {},
     headers |-> <<>>,
     data |-> "none"]

\* --------------------------------------------- the HTTP library's result
\* What the network does with a request: no response at all, or a response
\* with a status and a body.
NetFail == [t |-> "fail"]
NetHTTP(status, body) == [t |-> "http", status |-> status, body |-> body]

NilResp == [nil |-> TRUE, StatusCode |-> 0]
Resp(status) == [nil |-> FALSE, StatusCode |-> status]

\* gorequest's EndBytes: a failed round trip yields no response and the
\* errors; otherwise the response and its body, whatever they are.
EndBytes(net) ==
    IF net.t = "fail"
    THEN [resp |-> NilResp, errs |-> <<"transport">>]
    ELSE [resp |-> Resp(net.status), errs |-> <<>>]

\* gorequest's EndStruct(&baseResult): EndBytes, then the body is
\* unmarshalled into the envelope; an unmarshal error is reported with the
\* response still returned.
EndStruct(net) ==
    IF net.t = "fail"
    THEN [resp |-> NilResp, base |-> ZeroBase, errs |-> <<"transport">>]
    ELSE LET u == UnmarshalEnvelope(net.body)
         IN  [resp |-> Resp(net.status), base |-> u.base,
              errs |-> IF u.err THEN <<"unmarshal">> ELSE <<>>]

\* ------------------------------------------------ json.Unmarshal of data
\* Go values a generic decode produces.
NilMap == [t |-> "nilmap"]
NilSlice == [t |-> "nilslice"]
GoMap(m) == [t |-> "map", m |-> m]
GoSlice(a) == [t |-> "slice", a |-> a]
EmptyMap == GoMap(<<>>)
EmptySlice == GoSlice(<<>>)

GoValue(j) ==
    CASE j.t = "str"  -> [t |-> "string", s |-> j.s]
      [] j.t = "num"  -> [t |-> "float64", n |-> j.n]
      [] j.t = "null" -> [t |-> "nil"]
      [] OTHER        -> [t |-> "other"]

DecodeObject(o) == GoMap([k \in DOMAIN o |-> GoValue(o[k])])

\* into *map[string]interface{}
UnmarshalMap(raw) ==
    CASE raw.t = "nil"  -> [err |-> TRUE, value |-> NilMap]
      [] raw.t = "null" -> [err |-> FALSE, value |-> NilMap]
      [] raw.t = "obj"  -> [err |-> FALSE, value |-> DecodeObject(raw.o)]
      [] OTHER          -> [err |-> TRUE, value |-> NilMap]

\* into *[]map[string]interface{}: an element of the wrong type is
\* reported, and the elements that do decode are still stored.
DecodeElement(j) == IF j.t = "obj" THEN DecodeObject(j.o) ELSE NilMap

UnmarshalSliceMap(raw) ==
    CASE raw.t = "nil"  -> [err |-> TRUE, value |-> NilSlice]
      [] raw.t = "null" -> [err |-> FALSE, value |-> NilSlice]
      [] raw.t = "arr"  ->
            [err |-> \E i \in DOMAIN raw.a : raw.a[i].t \notin {"obj", "null"},
             value |-> GoSlice([i \in DOMAIN raw.a |-> DecodeElement(raw.a[i])])]
      [] OTHER          -> [err |-> TRUE, value |-> NilSlice]

Unmarshal(raw, dest) ==
    IF dest = "map" THEN UnmarshalMap(raw) ELSE UnmarshalSliceMap(raw)

ZeroValue(dest) == IF dest = "map" THEN NilMap ELSE NilSlice

\* ----------------------------------------------------- call: the result
\* What a function hands back: it panicked, or it returned err and data.
Panicked(dest) == [panic |-> TRUE, err |-> NoErr, data |-> ZeroValue(dest)]
Returned(err, data) == [panic |-> FALSE, err |-> err, data |-> data]

\* Mutant: the status error never mentions the envelope.
StatusErrorPlain(resp, base) ==
    MkErr("gorequest statusCode is not 200", resp.StatusCode, FALSE, 0, "")

\* The status error, annotated with the envelope when it has a message.
StatusError(resp, base) ==
    IF base.Message # ""
    THEN MkErr("gorequest statusCode is not 200", resp.StatusCode, TRUE,
               base.Code, base.Message)
    ELSE MkErr("gorequest statusCode is not 200", resp.StatusCode, FALSE, 0, "")

\* Mutant: the decode error is dropped.
callDecodeIgnoreErr(base, dest) == Returned(NoErr, Unmarshal(base.Data, dest).value)

callDecode(base, dest) ==
    LET u == Unmarshal(base.Data, dest)
    IN  IF u.err
        THEN Returned(MkErr("http request response body data not valid", 0,
                            FALSE, 0, ""), u.value)
        ELSE Returned(NoErr, u.value)

\* Mutant: the envelope code is not looked at.
callResultNoCode(lib, dest) ==
    IF lib.resp.nil THEN [panic |-> TRUE, err |-> NoErr, data |-> ZeroValue(dest)]
    ELSE IF Len(lib.errs) # 0
    THEN [panic |-> FALSE, err |-> MkErr("gorequest errors", 0, FALSE, 0, ""),
          data |-> ZeroValue(dest)]
    ELSE IF lib.resp.StatusCode # StatusOK
    THEN [panic |-> FALSE, err |-> StatusErrorPlain(lib.resp, lib.base),
          data |-> ZeroValue(dest)]
    ELSE callDecodeIgnoreErr(lib.base, dest)

\* call, from the library's result on.  The debug log of the response
\* status reads resp.StatusCode before errs is looked at.
callResult(lib, dest) ==
    IF lib.resp.nil THEN Panicked(dest)
    ELSE IF Len(lib.errs) # 0
    THEN Returned(MkErr("gorequest errors", 0, FALSE, 0, ""), ZeroValue(dest))
    ELSE IF lib.resp.StatusCode # StatusOK
    THEN Returned(StatusError(lib.resp, lib.base), ZeroValue(dest))
    ELSE IF lib.base.Code # 0
    THEN Returned(MkErr("response body.code", 0, TRUE, lib.base.Code,
                        lib.base.Message), ZeroValue(dest))
    ELSE callDecode(lib.base, dest)

callWithReturnMapData(lib) ==
    LET r == callResult(lib, "map")
    IN  IF r.panic THEN r
        ELSE IF r.err # NoErr THEN Returned(r.err, EmptyMap)
        ELSE Returned(NoErr, r.data)

callWithReturnSliceMapData(lib) ==
    LET r == callResult(lib, "slice")
    IN  IF r.panic THEN r
        ELSE IF r.err # NoErr THEN Returned(r.err, EmptySlice)
        ELSE Returned(NoErr, r.data)

\* -------------------------------------------------------- public methods
MapMethods == {"PolicyQuery", "V2PolicyQuery", "PolicyAuth", "V2PolicyAuth",
               "PolicyAuthByResources", "PolicyAuthByActions", "PolicyGet",
               "PolicyList"}
SliceMethods == {"PolicyQueryByActions", "V2PolicyQueryByActions", "PolicySubjects"}
StringMethods == {"GetToken", "GetApplyURL"}
DispatcherMethods == MapMethods \cup SliceMethods \cup StringMethods
Methods == {"Ping"} \cup DispatcherMethods

\* What a public method hands back to its caller.
NoValue == [t |-> "none"]
PublicPanic == [panic |-> TRUE, err |-> NoErr, data |-> NoValue, str |-> ""]
PublicReturn(err, data, str) == [panic |-> FALSE, err |-> err, data |-> data, str |-> str]

\* The request each method builds (arg: the system or policy id a method
\* takes and interpolates into its path).
EndpointRequest(c, m, arg) ==
    CASE m = "Ping" -> PingRequest(c)
      [] m = "GetToken" ->
            callRequest(c, "GET", <<"/api/v1/model/systems/", c.System, "/token">>, "{}")
      [] m = "PolicyQuery" ->
            callRequest(c, "POST", <<"/api/v1/policy/query">>, "body")
      [] m = "V2PolicyQuery" ->
            callRequest(c, "POST", <<"/api/v2/policy/systems/", arg, "/query/">>, "body")
      [] m = "PolicyQueryByActions" ->
            callRequest(c, "POST", <<"/api/v1/policy/query_by_actions">>, "body")
      [] m = "V2PolicyQueryByActions" ->
            callRequest(c, "POST",
                        <<"/api/v2/policy/systems/", arg, "/query_by_actions/">>, "body")
      [] m = "PolicyAuth" ->
            callRequest(c, "POST", <<"/api/v1/policy/auth">>, "body")
      [] m = "V2PolicyAuth" ->
            callRequest(c, "POST", <<"/api/v2/policy/systems/", arg, "/auth/">>, "body")
      [] m = "PolicyAuthByResources" ->
            callRequest(c, "POST", <<"/api/v1/policy/auth_by_resources">>, "body")
      [] m = "PolicyAuthByActions" ->
            callRequest(c, "POST", <<"/api/v1/policy/auth_by_actions">>, "body")
      [] m = "PolicyGet" ->
            callRequest(c, "GET", <<"/api/v1/systems/", c.System, "/policies/", arg>>, "{}")
      [] m = "PolicyList" ->
            callRequest(c, "GET", <<"/api/v1/systems/", c.System, "/policies">>, "body")
      [] m = "PolicySubjects" ->
            callRequest(c, "GET",
                        <<"/api/v1/systems/", c.System, "/policies/-/subjects">>, "ids")
      [] m = "GetApplyURL" ->
            callRequest(c, "POST", <<"/api/v1/open/application/">>, "body")

\* Mutant: a method keeps the argument it was given in the receiver.
receiverAfterStore(c, m, arg) == [c EXCEPT !.System = arg]

\* Every method has a pointer receiver; none assigns to a field of it.
receiverAfter(c, m, arg) == c

\* Mutant: Ping goes through the envelope like the other methods.
PingViaEnvelope(net) ==
    LET lib == EndStruct(net)
    IN  IF Len(lib.errs) # 0 \/ lib.base.Code # 0
        THEN [panic |-> FALSE, err |-> MkErr("ping fail! errs", 0, FALSE, 0, ""),
              data |-> [t |-> "none"], str |-> ""]
        ELSE [panic |-> FALSE, err |-> NoErr, data |-> [t |-> "none"], str |-> ""]

Ping(net) ==
    LET lib == EndBytes(net)
    IN  IF Len(lib.errs) # 0
        THEN PublicReturn(MkErr("ping fail! errs", 0, FALSE, 0, ""), NoValue, "")
        ELSE IF lib.resp.StatusCode # StatusOK
        THEN PublicReturn(MkErr("ping fail! status_code", lib.resp.StatusCode,
                                FALSE, 0, ""), NoValue, "")
        ELSE PublicReturn(NoErr, NoValue, "")

\* data[field] of a map[string]interface{}, nil or not.
HasKey(data, field) == data.t = "map" /\ field \in DOMAIN data.m

\* Mutant: the token is handed back without looking at its type.
GetTokenUnchecked(net) ==
    LET r == callWithReturnMapData(EndStruct(net))
    IN  IF r.panic THEN PublicPanic
        ELSE IF r.err # NoErr THEN PublicReturn(r.err, NoValue, "")
        ELSE IF ~HasKey(r.data, "token")
        THEN PublicReturn(MkErr("no token in response body", 0, FALSE, 0, ""),
                          NoValue, "")
        ELSE PublicReturn(NoErr, NoValue, "")

GetToken(net) ==
    LET r == callWithReturnMapData(EndStruct(net))
    IN  IF r.panic THEN PublicPanic
        ELSE IF r.err # NoErr THEN PublicReturn(r.err, NoValue, "")
        ELSE IF ~HasKey(r.data, "token")
        THEN PublicReturn(MkErr("no token in response body", 0, FALSE, 0, ""),
                          NoValue, "")
        ELSE IF r.data.m["token"].t # "string"
        THEN PublicReturn(MkErr("token is not a valid string", 0, FALSE, 0, ""),
                          NoValue, "")
        ELSE PublicReturn(NoErr, NoValue, r.data.m["token"].s)

GetApplyURL(net) ==
    LET r == callWithReturnMapData(EndStruct(net))
    IN  IF r.panic THEN PublicPanic
        ELSE IF r.err # NoErr THEN PublicReturn(r.err, NoValue, "")
        ELSE IF ~HasKey(r.data, "url")
        THEN PublicReturn(MkErr("no url in response body", 0, FALSE, 0, ""),
                          NoValue, "")
        ELSE IF r.data.m["url"].t # "string"
        THEN PublicReturn(MkErr("url is not a valid string", 0, FALSE, 0, ""),
                          NoValue, "")
        ELSE PublicReturn(NoErr, NoValue, r.data.m["url"].s)

\* The methods that hand the wrapper's result straight back.
PassThrough(r) ==
    IF r.panic THEN PublicPanic ELSE PublicReturn(r.err, r.data, "")

EndpointReturn(m, net) ==
    CASE m = "Ping"          -> Ping(net)
      [] m = "GetToken"      -> GetToken(net)
      [] m = "GetApplyURL"   -> GetApplyURL(net)
      [] m \in MapMethods    -> PassThrough(callWithReturnMapData(EndStruct(net)))
      [] m \in SliceMethods  -> PassThrough(callWithReturnSliceMapData(EndStruct(net)))

\* ------------------------------------------------------------------ state
VARIABLES
    client,     \* the iamBackendClient shared by the callers
    pc,         \* per caller: "idle", "waiting", "returned", "panicked"
    api,        \* per caller: the public method it is in
    wire,       \* per caller: the request handed to the HTTP library
    sent,       \* per caller: requests sent by the current invocation
    net,        \* per caller: what the network answered
    ret         \* per caller: what the method handed back

vars == <<client, pc, api, wire, sent, net, ret>>

NoRequest == [method |-> "none"]
NoNet == [t |-> "none"]
NoRet == [panic |-> FALSE, err |-> NoErr, data |-> NoValue, str |-> "unset"]

\* --------------------------------------------------- inputs of the model
Hosts == {<<"http://iam">>, <<"http://iam", "/">>}
Args == {"demo", "42"}
Statuses == {StatusOK, 500}
Codes == {JNum(0), JNum(1901), JStr("1901")}
Messages == {JStr(""), JStr("boom"), JNum(1)}
Objects == {JObj(<<>>),
            JObj([k \in {"token"} |-> JStr("tok")]),
            JObj([k \in {"token"} |-> JNum(7)]),
            JObj([k \in {"token"} |-> JNull]),
            JObj([k \in {"url"} |-> JStr("http://apply")]),
            JObj([k \in {"url"} |-> JNum(7)])}
Arrays == {JArr(<<>>), JArr(<<JObj(<<>>)>>), JArr(<<JObj(<<>>), JNum(7)>>)}
DataValues == Objects \cup Arrays \cup {JNull, JStr("text")}

Envelopes ==
    {JObj([k \in {"code", "message", "data"} |->
            IF k = "code" THEN c ELSE IF k = "message" THEN msg ELSE d]) :
        c \in Codes, msg \in Messages, d \in DataValues}
    \cup {JObj([k \in {"code", "message"} |-> IF k = "code" THEN c ELSE msg]) :
            c \in Codes, msg \in Messages}

Bodies == Envelopes \cup {Garbage, JNull, JArr(<<>>)}
Nets == {NetFail} \cup {NetHTTP(s, b) : s \in Statuses, b \in Bodies}

\* A successful token reply, a failure with a message, and no reply at all.
FewNets ==
    {NetFail,
     NetHTTP(StatusOK, JObj([k \in {"code", "message", "data"} |->
                IF k = "code" THEN JNum(0) ELSE IF k = "message" THEN JStr("")
                ELSE JObj([f \in {"token"} |-> JStr("tok")])])),
     NetHTTP(500, JObj([k \in {"code", "message"} |->
                IF k = "code" THEN JNum(1901) ELSE JStr("boom")]))}

Configs(creds, flags) ==
    {NewIAMBackendClient(h, g, "demo", ac, as, d, f) :
        h \in Hosts, g \in BOOLEAN, ac \in creds, as \in creds,
        d \in flags, f \in flags}

\* ---------------------------------------------------------------- actions
InitWith(configs, callers) ==
    /\ client \in configs
    /\ pc = [c \in callers |-> "idle"]
    /\ api = [c \in callers |-> "none"]
    /\ wire = [c \in callers |-> NoRequest]
    /\ sent = [c \in callers |-> 0]
    /\ net = [c \in callers |-> NoNet]
    /\ ret = [c \in callers |-> NoRet]

\* A caller enters a public method; the method builds its request and hands
\* it to the HTTP library.
Invoke(c) ==
    /\ pc[c] = "idle"
    /\ \E m \in Methods, arg \in Args :
        /\ api' = [api EXCEPT ![c] = m]
        /\ wire' = [wire EXCEPT ![c] = EndpointRequest(client, m, arg)]
        /\ client' = receiverAfter(client, m, arg)
    /\ sent' = [sent EXCEPT ![c] = 1]
    /\ pc' = [pc EXCEPT ![c] = "waiting"]
    /\ UNCHANGED <<net, ret>>

\* The library comes back and the method runs to its end.
Complete(c, nets) ==
    /\ pc[c] = "waiting"
    /\ \E n \in nets :
        LET r == EndpointReturn(api[c], n)
        IN  /\ net' = [net EXCEPT ![c] = n]
            /\ ret' = [ret EXCEPT ![c] = r]
            /\ pc' = [pc EXCEPT ![c] = IF r.panic THEN "panicked" ELSE "returned"]
    /\ wire' = [wire EXCEPT ![c] = NoRequest]
    /\ UNCHANGED <<client, api, sent>>

\* The caller takes the return values and is free to call again.
Return(c) ==
    /\ pc[c] = "returned"
    /\ pc' = [pc EXCEPT ![c] = "idle"]
    /\ api' = [api EXCEPT ![c] = "none"]
    /\ sent' = [sent EXCEPT ![c] = 0]
    /\ net' = [net EXCEPT ![c] = NoNet]
    /\ ret' = [ret EXCEPT ![c] = NoRet]
    /\ UNCHANGED <<client, wire>>

\* A panic unwinds out of the method into the caller, which recovers.
Unwind(c) ==
    /\ pc[c] = "panicked"
    /\ pc' = [pc EXCEPT ![c] = "idle"]
    /\ api' = [api EXCEPT ![c] = "none"]
    /\ sent' = [sent EXCEPT ![c] = 0]
    /\ net' = [net EXCEPT ![c] = NoNet]
    /\ ret' = [ret EXCEPT ![c] = NoRet]
    /\ UNCHANGED <<client, wire>>

\* One caller, every reply the network can give.
Init == InitWith(Configs({<<"a">>}, BOOLEAN), {1})
Next ==
    \/ Invoke(1)
    \/ Complete(1, Nets)
    \/ Return(1)
    \/ Unwind(1)
Spec == Init /\ [][Next]_vars

\* One caller, every credential up to MaxCredLen, few replies.
InitAuth == InitWith(Configs(StringsUpTo(MaxCredLen), BOOLEAN), {1})
NextAuth ==
    \/ Invoke(1)
    \/ Complete(1, FewNets)
    \/ Return(1)
    \/ Unwind(1)
SpecAuth == InitAuth /\ [][NextAuth]_vars

\* NumCallers callers interleaving on the one client, few replies.
Callers == 1..NumCallers
InitConc == InitWith(Configs({<<"a">>}, {FALSE}), Callers)
NextConc ==
    \E c \in Callers :
        \/ Invoke(c)
        \/ Complete(c, FewNets)
        \/ Return(c)
        \/ Unwind(c)
SpecConc == InitConc /\ [][NextConc]_vars

\* ================================================================ claims
\* What a reply carries, read off the reply itself.
IsHTTP(n) == n.t = "http"
FieldOK(o, k, ty) == k \notin DOMAIN o \/ o[k].t \in {ty, "null"}
\* The body parses as an envelope: the library reports no error for it.
ParsesAsEnvelope(n) ==
    /\ IsHTTP(n)
    /\ \/ n.body.t = "null"
       \/ n.body.t = "obj" /\ FieldOK(n.body.o, "code", "num")
                           /\ FieldOK(n.body.o, "message", "str")
EnvCode(n) ==
    IF IsHTTP(n) /\ n.body.t = "obj" /\ "code" \in DOMAIN n.body.o
       /\ n.body.o["code"].t = "num"
    THEN n.body.o["code"].n ELSE 0
EnvMessage(n) ==
    IF IsHTTP(n) /\ n.body.t = "obj" /\ "message" \in DOMAIN n.body.o
       /\ n.body.o["message"].t = "str"
    THEN n.body.o["message"].s ELSE ""
HasData(n) == IsHTTP(n) /\ n.body.t = "obj" /\ "data" \in DOMAIN n.body.o
EnvData(n) == n.body.o["data"]

Finished(c) == pc[c] \in {"returned", "panicked"}
ViaDispatcher(c) == api[c] \in DispatcherMethods
ErrCarries(e, code, message) == e.hasBody /\ e.code = code /\ e.message = message
\* HTTP 200, an envelope the library accepts, code 0.
Succeeded(n) == ParsesAsEnvelope(n) /\ n.status = StatusOK /\ EnvCode(n) = 0

\* C1 as stated: whenever the envelope of the response carries a non-zero
\* code, the dispatcher call returns an error holding that code and that
\* message, whatever the HTTP status and whether or not the message is empty.
C1_Original ==
    \A c \in DOMAIN pc :
        (Finished(c) /\ ViaDispatcher(c) /\ ParsesAsEnvelope(net[c])
                     /\ EnvCode(net[c]) # 0) =>
            /\ pc[c] = "returned"
            /\ ret[c].err # NoErr
            /\ ErrCarries(ret[c].err, EnvCode(net[c]), EnvMessage(net[c]))

\* C1 amended: whenever the envelope of the response carries a non-zero
\* code, the dispatcher call returns an error; the error holds that code and
\* that message when the status is 200 or the message is not empty.
C1_NonZeroCodeIsError ==
    \A c \in DOMAIN pc :
        (Finished(c) /\ ViaDispatcher(c) /\ ParsesAsEnvelope(net[c])
                     /\ EnvCode(net[c]) # 0) =>
            /\ pc[c] = "returned"
            /\ ret[c].err # NoErr
            /\ (net[c].status = StatusOK \/ EnvMessage(net[c]) # "") =>
                    ErrCarries(ret[c].err, EnvCode(net[c]), EnvMessage(net[c]))

\* A 200 reply with a non-zero code and an empty message came back as the
\* application error holding the code.
C1_Witness ==
    \E c \in DOMAIN pc :
        /\ pc[c] = "returned" /\ ViaDispatcher(c) /\ ParsesAsEnvelope(net[c])
        /\ net[c].status = StatusOK /\ EnvCode(net[c]) = 1901
        /\ EnvMessage(net[c]) = ""
        /\ ret[c].err.kind = "response body.code" /\ ret[c].err.code = 1901

\* C2 as stated: a transport failure (errors, no response object) makes the
\* dispatcher call return the transport error; nothing between the library
\* result and the error check aborts the call.
C2_TransportErrorReturned ==
    \A c \in DOMAIN pc :
        (Finished(c) /\ ViaDispatcher(c) /\ net[c] = NetFail) =>
            /\ pc[c] = "returned"
            /\ ret[c].err.kind = "gorequest errors"

\* C3: a response whose status is not 200 always makes the dispatcher call
\* return a non-nil error; when the body parses as an envelope with a
\* non-empty message the error holds that message and the envelope code.
C3_Non200IsError ==
    \A c \in DOMAIN pc :
        (Finished(c) /\ ViaDispatcher(c) /\ IsHTTP(net[c])
                     /\ net[c].status # StatusOK) =>
            /\ pc[c] = "returned"
            /\ ret[c].err # NoErr
            /\ (ParsesAsEnvelope(net[c]) /\ EnvMessage(net[c]) # "") =>
                    ErrCarries(ret[c].err, EnvCode(net[c]), EnvMessage(net[c]))

\* A 500 reply whose envelope says "boom" came back as an error saying so.
C3_Witness ==
    \E c \in DOMAIN pc :
        /\ pc[c] = "returned" /\ ViaDispatcher(c) /\ ParsesAsEnvelope(net[c])
        /\ net[c].status = 500 /\ EnvMessage(net[c]) = "boom"
        /\ ret[c].err.message = "boom"

\* The destination a method decodes into, and whether raw data fits it.
DestOf(m) == IF m \in SliceMethods THEN "slice" ELSE "map"
Fits(n, dest) ==
    /\ HasData(n)
    /\ IF dest = "map" THEN EnvData(n).t \in {"obj", "null"}
       ELSE \/ EnvData(n).t = "null"
            \/ /\ EnvData(n).t = "arr"
               /\ \A i \in DOMAIN EnvData(n).a : EnvData(n).a[i].t \in {"obj", "null"}
DecodeErr(e) == e.kind = "http request response body data not valid"

\* C4: on success (HTTP 200, envelope code 0) data that is valid JSON of the
\* destination shape is decoded and handed back without error (an object
\* as a map with the object's keys, an array as a slice of its length);
\* absent data or JSON of another shape gives the decode error instead.
C4_DecodeOnSuccess ==
    \A c \in DOMAIN pc :
        (Finished(c) /\ ViaDispatcher(c) /\ Succeeded(net[c])) =>
            /\ pc[c] = "returned"
            /\ IF Fits(net[c], DestOf(api[c]))
               THEN /\ ~DecodeErr(ret[c].err)
                    /\ api[c] \notin StringMethods =>
                        /\ ret[c].err = NoErr
                        /\ EnvData(net[c]).t = "obj" =>
                            /\ ret[c].data.t = "map"
                            /\ DOMAIN ret[c].data.m = DOMAIN EnvData(net[c]).o
                        /\ EnvData(net[c]).t = "arr" =>
                            /\ ret[c].data.t = "slice"
                            /\ Len(ret[c].data.a) = Len(EnvData(net[c]).a)
               ELSE DecodeErr(ret[c].err)

\* A successful envelope whose data is an array reached a method that
\* decodes into a map, and the decode error came back.
C4_Witness ==
    \E c \in DOMAIN pc :
        /\ pc[c] = "returned" /\ api[c] = "PolicyQuery" /\ Succeeded(net[c])
        /\ HasData(net[c]) /\ EnvData(net[c]).t = "arr"
        /\ DecodeErr(ret[c].err)

\* Reading a header value back as JSON: a string literal starting at i,
\* then an object of string members.
ParseFail == [ok |-> FALSE, val |-> <<>>, next |-> 0]

RECURSIVE ReadChars(_, _, _)
ReadChars(s, i, acc) ==
    IF i > Len(s) THEN ParseFail
    ELSE IF s[i] = DQ THEN [ok |-> TRUE, val |-> acc, next |-> i + 1]
    ELSE IF s[i] = BS
    THEN IF i + 1 <= Len(s) /\ s[i + 1] \in {DQ, BS}
         THEN ReadChars(s, i + 2, Append(acc, s[i + 1]))
         ELSE ParseFail
    ELSE ReadChars(s, i + 1, Append(acc, s[i]))

ReadString(s, i) ==
    IF i <= Len(s) /\ s[i] = DQ THEN ReadChars(s, i + 1, <<>>) ELSE ParseFail

\* Members from position i to the closing brace: <<key, value>> pairs.
RECURSIVE ReadMembers(_, _, _)
ReadMembers(s, i, acc) ==
    LET k == ReadString(s, i)
    IN  IF ~k.ok \/ k.next > Len(s) \/ s[k.next] # ":" THEN ParseFail
        ELSE LET v == ReadString(s, k.next + 1)
                 members == Append(acc, <<k.val, v.val>>)
             IN  IF ~v.ok \/ v.next > Len(s) THEN ParseFail
                 ELSE IF s[v.next] = "}" /\ v.next = Len(s)
                 THEN [ok |-> TRUE, val |-> members, next |-> v.next + 1]
                 ELSE IF s[v.next] = ","
                 THEN ReadMembers(s, v.next + 1, members)
                 ELSE ParseFail

ReadObject(s) ==
    IF Len(s) < 2 \/ s[1] # "{" THEN ParseFail
    ELSE IF s = <<"{", "}">> THEN [ok |-> TRUE, val |-> <<>>, next |-> 3]
    ELSE ReadMembers(s, 2, <<>>)

\* The header value is a JSON object holding exactly the two credentials.
IsAuthObject(value, appCode, appSecret) ==
    LET obj == ReadObject(value)
    IN  /\ obj.ok
        /\ {obj.val[j] : j \in DOMAIN obj.val} =
              {<<<<"bk_app_code">>, appCode>>, <<<<"bk_app_secret">>, appSecret>>}
        /\ Len(obj.val) = 2

InFlight(c) == pc[c] = "waiting" /\ api[c] \in DispatcherMethods

\* C5: every request of the dispatcher carries X-Bk-IAM-Version: 1 and the
\* credentials of exactly one mode: in gateway mode X-Bkapi-Authorization,
\* a JSON object of exactly bk_app_code and bk_app_secret with the
\* configured values, and neither direct header; otherwise X-BK-APP-CODE
\* and X-BK-APP-SECRET with the configured values and no X-Bkapi-Authorization.
C5_AuthHeaders ==
    \A c \in DOMAIN pc :
        InFlight(c) =>
            LET h == wire[c].headers
            IN  /\ "X-Bk-IAM-Version" \in DOMAIN h
                /\ h["X-Bk-IAM-Version"] = <<"1">>
                /\ IF client.IsAPIGateway
                   THEN /\ "X-Bkapi-Authorization" \in DOMAIN h
                        /\ IsAuthObject(h["X-Bkapi-Authorization"],
                                        client.appCode, client.appSecret)
                        /\ "X-BK-APP-CODE" \notin DOMAIN h
                        /\ "X-BK-APP-SECRET" \notin DOMAIN h
                   ELSE /\ "X-BK-APP-CODE" \in DOMAIN h
                        /\ h["X-BK-APP-CODE"] = client.appCode
                        /\ "X-BK-APP-SECRET" \in DOMAIN h
                        /\ h["X-BK-APP-SECRET"] = client.appSecret
                        /\ "X-Bkapi-Authorization" \notin DOMAIN h

\* A gateway-mode request is in flight whose code is a backslash followed by
\* a double quote and whose secret is a backslash: all need escaping.
C5_Witness ==
    \E c \in DOMAIN pc :
        /\ InFlight(c) /\ client.IsAPIGateway
        /\ client.appCode = <<BS, DQ>> /\ client.appSecret = <<BS>>
        /\ "X-Bkapi-Authorization" \in DOMAIN wire[c].headers

\* C6 as stated: an invocation of a public method sends at most one HTTP
\* request, and after any failure (transport failure included) the method
\* has returned that failure to its caller, no further request sent.
C6_NoRetryFailureReturned ==
    \A c \in DOMAIN pc :
        /\ sent[c] <= 1
        /\ (Finished(c) /\ (~IsHTTP(net[c]) \/ ret[c].panic \/ ret[c].err # NoErr)) =>
                /\ pc[c] = "returned"
                /\ ret[c].err # NoErr

\* The token a successful reply carries: absent, a string, or something else.
FieldState(n, field) ==
    IF ~(HasData(n) /\ EnvData(n).t = "obj" /\ field \in DOMAIN EnvData(n).o)
    THEN "absent"
    ELSE IF EnvData(n).o[field].t = "str" THEN "string" ELSE "other"

ExtractsField(c, field, absentKind, typeKind) ==
    /\ (Succeeded(net[c]) /\ Fits(net[c], "map")) =>
          /\ pc[c] = "returned"
          /\ FieldState(net[c], field) = "string" =>
                /\ ret[c].err = NoErr
                /\ ret[c].str = EnvData(net[c]).o[field].s
          /\ FieldState(net[c], field) = "absent" => ret[c].err.kind = absentKind
          /\ FieldState(net[c], field) = "other" => ret[c].err.kind = typeKind
    /\ (pc[c] = "returned" /\ ret[c].err # NoErr) => ret[c].str = ""

\* C7: after a successful dispatcher call GetToken returns the string under
\* `token` with a nil error; one error when the field is absent (null or
\* empty data included), a different one when it is not a string; in both
\* cases and whenever the dispatcher call fails the token returned is "".
\* GetApplyURL does the same for `url`.
C7_FieldExtraction ==
    \A c \in DOMAIN pc :
        /\ (Finished(c) /\ api[c] = "GetToken") =>
              ExtractsField(c, "token", "no token in response body",
                            "token is not a valid string")
        /\ (Finished(c) /\ api[c] = "GetApplyURL") =>
              ExtractsField(c, "url", "no url in response body",
                            "url is not a valid string")

\* GetToken met a successful reply whose token is a number and returned the
\* not-a-string error with an empty token.
C7_Witness ==
    \E c \in DOMAIN pc :
        /\ pc[c] = "returned" /\ api[c] = "GetToken" /\ Succeeded(net[c])
        /\ FieldState(net[c], "token") = "other"
        /\ ret[c].err.kind = "token is not a valid string" /\ ret[c].str = ""

\* C8: Ping sends one GET to <host>/ping with no authentication or version
\* header, and returns nil exactly when there is no transport error and the
\* status is 200, whatever the body holds.
C8_Ping ==
    \A c \in DOMAIN pc :
        /\ (pc[c] = "waiting" /\ api[c] = "Ping") =>
              /\ wire[c].method = "GET"
              /\ wire[c].url = client.Host \o <<"/ping">>
              /\ DOMAIN wire[c].headers = {}
              /\ sent[c] = 1
        /\ (Finished(c) /\ api[c] = "Ping") =>
              /\ pc[c] = "returned"
              /\ sent[c] = 1
              /\ ret[c].err = NoErr <=>
                    (IsHTTP(net[c]) /\ net[c].status = StatusOK)

\* Ping returned nil on a 200 reply whose body is not JSON.
C8_Witness ==
    \E c \in DOMAIN pc :
        /\ pc[c] = "returned" /\ api[c] = "Ping"
        /\ net[c] = NetHTTP(StatusOK, Garbage)
        /\ ret[c].err = NoErr

SameFrame(d) ==
    /\ pc'[d] = pc[d] /\ api'[d] = api[d] /\ wire'[d] = wire[d]
    /\ sent'[d] = sent[d] /\ net'[d] = net[d] /\ ret'[d] = ret[d]

\* A step leaves the client as it was, and a step of one caller leaves every
\* other caller's call as it was.
NoSharedWrite ==
    /\ client' = client
    /\ \A c, d \in DOMAIN pc : (c # d /\ pc'[c] # pc[c]) => SameFrame(d)

\* Requests in flight are addressed to the host of the client, and two
\* finished calls of the same method with the same reply have the same
\* outcome.
OwnOutcome ==
    /\ \A c \in DOMAIN pc :
          pc[c] = "waiting" =>
              SubSeq(wire[c].url, 1, Len(client.Host)) = client.Host
    /\ \A c, d \in DOMAIN pc :
          (Finished(c) /\ Finished(d) /\ api[c] = api[d] /\ net[c] = net[d]) =>
              ret[c] = ret[d]

StatusErr(e) == e.kind = "gorequest statusCode is not 200"

\* C10 as stated: a dispatcher call has one outcome, by precedence: a
\* library error (network failure, unparseable body) gives the transport
\* error; else a status other than 200 the status error; else a non-zero
\* code the application error; else undecodable data the decode error; else
\* nil.  On any error the map and slice wrappers hand back an empty
\* non-nil result.
C10_Precedence ==
    \A c \in DOMAIN pc :
        (Finished(c) /\ ViaDispatcher(c)) =>
            LET n == net[c]
                e == ret[c].err
            IN  /\ pc[c] = "returned"
                /\ IF ~ParsesAsEnvelope(n) THEN e.kind = "gorequest errors"
                   ELSE IF n.status # StatusOK THEN StatusErr(e)
                   ELSE IF EnvCode(n) # 0 THEN e.kind = "response body.code"
                   ELSE IF ~Fits(n, DestOf(api[c])) THEN DecodeErr(e)
                   ELSE api[c] \notin StringMethods => e = NoErr
                /\ (e # NoErr /\ api[c] \in MapMethods) => ret[c].data = EmptyMap
                /\ (e # NoErr /\ api[c] \in SliceMethods) => ret[c].data = EmptySlice

====
